---- MODULE Spec2Model ----
(***************************************************************************)
(* A state-machine model of the Scheduler component                        *)
(* (src/components/Scheduler.tsx): its React state, the requests it has in *)
(* flight, the popup pollers and dialog timers it has started, and one     *)
(* action per event handler or response continuation.  A state update and  *)
(* the effects React runs because of it are one atomic step.               *)
(*                                                                         *)
(* JavaScript strings on which the code computes (ISO timestamps, the note,*)
(* the command) are sequences of one-character strings, so that split,     *)
(* trim, includes, Number and parseInt are computed and not assumed.       *)
(* A nullable value is None (null / undefined) or Some(v).                 *)
(***************************************************************************)
EXTENDS Integers, Sequences, FiniteSets, TLC

None == <<>>
Some(v) == <<v>>
Get(o) == o[1]

(***************************************************************************)
(* Strings                                                                 *)
(***************************************************************************)
DigitSeq == <<"0", "1", "2", "3", "4", "5", "6", "7", "8", "9">>
IsDigit(c) == \E k \in 1..Len(DigitSeq) : DigitSeq[k] = c
DigitVal(c) == (CHOOSE k \in 1..Len(DigitSeq) : DigitSeq[k] = c) - 1
DigitChar(n) == DigitSeq[n + 1]

\* NaN, as Number and parseInt return it; every number the model reads from a
\* string is otherwise a natural.
NaN == -1

RECURSIVE SplitFrom(_, _, _, _)
SplitFrom(s, sep, i, cur) ==
  IF i > Len(s) THEN <<cur>>
  ELSE IF s[i] = sep THEN <<cur>> \o SplitFrom(s, sep, i + 1, <<>>)
  ELSE SplitFrom(s, sep, i + 1, Append(cur, s[i]))

\* String.prototype.split with a one-character separator.
Split(s, sep) == SplitFrom(s, sep, 1, <<>>)

RECURSIVE DigitsValue(_, _, _)
DigitsValue(s, n, acc) ==
  IF n = 0 THEN acc
  ELSE DigitsValue(Tail(s), n - 1, acc * 10 + DigitVal(Head(s)))

RECURSIVE DigitPrefixLen(_, _)
DigitPrefixLen(s, i) ==
  IF i <= Len(s) /\ IsDigit(s[i]) THEN DigitPrefixLen(s, i + 1) ELSE i - 1

\* Number(s) of a string without blanks or sign: 0 for "", NaN unless all digits.
Number(s) ==
  IF DigitPrefixLen(s, 1) = Len(s) THEN DigitsValue(s, Len(s), 0) ELSE NaN

\* parseInt(s, 10) of a string without leading blanks or sign: the leading digits.
ParseInt(s) ==
  LET n == DigitPrefixLen(s, 1) IN IF n = 0 THEN NaN ELSE DigitsValue(s, n, 0)

IsBlank(c) == c \in {" ", "\t", "\n"}

RECURSIVE TrimLeft(_)
TrimLeft(s) == IF s # <<>> /\ IsBlank(Head(s)) THEN TrimLeft(Tail(s)) ELSE s

RECURSIVE TrimRight(_)
TrimRight(s) ==
  IF s # <<>> /\ IsBlank(s[Len(s)]) THEN TrimRight(SubSeq(s, 1, Len(s) - 1)) ELSE s

\* String.prototype.trim
Trim(s) == TrimRight(TrimLeft(s))

\* String.prototype.includes
Includes(s, sub) ==
  \E i \in 1..(Len(s) + 1) :
    /\ i + Len(sub) - 1 <= Len(s)
    /\ SubSeq(s, i, i + Len(sub) - 1) = sub

RECURSIVE NumStr(_)
NumStr(n) == IF n < 10 THEN <<DigitChar(n)>> ELSE Append(NumStr(n \div 10), DigitChar(n % 10))

Pad2(n) == IF n < 10 THEN <<"0", DigitChar(n)>> ELSE NumStr(n)

(***************************************************************************)
(* Dates.  A JavaScript Date is modelled by its local wall-clock fields    *)
(* (month 0-based, as getMonth returns it).  NewDate is the constructor in  *)
(* a time zone without daylight-saving gaps; LocalTime adds the gaps.      *)
(***************************************************************************)
InvalidDate == [year |-> NaN, month |-> NaN, date |-> NaN, hours |-> NaN, minutes |-> NaN]

IsLeap(y) == (y % 4 = 0 /\ y % 100 # 0) \/ y % 400 = 0

DaysInMonth(y, m0) ==
  IF m0 = 1 THEN (IF IsLeap(y) THEN 29 ELSE 28)
  ELSE IF m0 \in {3, 5, 8, 10} THEN 30 ELSE 31

RECURSIVE NormDay(_, _, _)
NormDay(y, m0, d) ==
  IF m0 > 11 THEN NormDay(y + 1, m0 - 12, d)
  ELSE IF m0 < 0 THEN NormDay(y - 1, m0 + 12, d)
  ELSE IF d > DaysInMonth(y, m0) THEN NormDay(y, m0 + 1, d - DaysInMonth(y, m0))
  ELSE IF d < 1 THEN
    LET py == IF m0 = 0 THEN y - 1 ELSE y
        pm == IF m0 = 0 THEN 11 ELSE m0 - 1
    IN NormDay(py, pm, d + DaysInMonth(py, pm))
  ELSE <<y, m0, d>>

\* new Date(year, monthIndex, day, hours, minutes): a NaN field gives Invalid
\* Date, a year 0..99 means 1900 + year, and a field out of range carries over.
NewDate(y, m0, d, h, mi) ==
  IF NaN \in {y, m0, d, h, mi} THEN InvalidDate
  ELSE
    LET total == h * 60 + mi
        ymd == NormDay(IF y \in 0..99 THEN 1900 + y ELSE y, m0, d + (total \div 1440))
    IN [year |-> ymd[1], month |-> ymd[2], date |-> ymd[3],
        hours |-> (total % 1440) \div 60, minutes |-> total % 60]

InvalidDateStr == <<"I", "n", "v", "a", "l", "i", "d", " ", "D", "a", "t", "e">>

\* parseUtcToLocalDate passing month where the Date constructor wants month - 1.
parseUtcToLocalDateMonthOff(isoString) ==
  LET parts == Split(isoString, "T")
      ymd == Split(parts[1], "-")
      hm == Split(parts[2], ":")
  IN NewDate(Number(ymd[1]), Number(ymd[2]), Number(ymd[3]), ParseInt(hm[1]), ParseInt(hm[2]))

parseUtcToLocalDate(isoString) ==
  LET parts == Split(isoString, "T")
      datePart == parts[1]
      timePart == parts[2]
      ymd == Split(datePart, "-")
      hm == Split(timePart, ":")
      year == Number(ymd[1])
      month == Number(ymd[2])
      day == Number(ymd[3])
      hour == ParseInt(hm[1])
      minute == ParseInt(hm[2])
  IN NewDate(year, IF month = NaN THEN NaN ELSE month - 1, day, hour, minute)

\* toLocaleDateString("en-US", {year: "numeric", month: "2-digit", day: "2-digit"})
formatDateKey(date) ==
  IF date = InvalidDate THEN InvalidDateStr
  ELSE Pad2(date.month + 1) \o <<"/">> \o Pad2(date.date) \o <<"/">> \o NumStr(date.year)

\* The browser's time zone, as far as new Date(y, m, d, h, mi) depends on it:
\* the local times from..from + len - 1 (minutes of the day) of one day do not
\* exist, the clocks being put forward by len minutes at from.
NoGapZone == [year |-> 0, month |-> 0, date |-> 0, from |-> 0, len |-> 0]
\* America/New_York, 2025-03-09: 02:00 becomes 03:00.
NewYorkZone == [year |-> 2025, month |-> 2, date |-> 9, from |-> 120, len |-> 60]
Zones == {NoGapZone, NewYorkZone}

InGap(zone, date) ==
  /\ date # InvalidDate
  /\ <<date.year, date.month, date.date>> = <<zone.year, zone.month, zone.date>>
  /\ date.hours * 60 + date.minutes >= zone.from
  /\ date.hours * 60 + date.minutes < zone.from + zone.len

\* The local fields of new Date(y, m, d, h, mi) in a zone: a time that does not
\* exist there is read with the offset in force before the change, which shows
\* as the time len minutes later.
LocalTime(zone, date) ==
  IF InGap(zone, date)
  THEN NewDate(date.year, date.month, date.date, date.hours, date.minutes + zone.len)
  ELSE date

\* parseUtcToLocalDate in a browser of that zone.
parseUtcToLocalDateIn(zone, isoString) == LocalTime(zone, parseUtcToLocalDate(isoString))

\* data?.available_slots is missing
NoSlots(dat) == dat = None \/ Get(dat).available_slots = None

\* groupSlotsByDate's loop with the push replaced by an assignment: a day keeps
\* only the last of its slots.
RECURSIVE GroupFromLast(_, _, _)
GroupFromLast(slots, i, grouped) ==
  IF i > Len(slots) THEN grouped
  ELSE
    LET slot == slots[i]
        dateKey == formatDateKey(parseUtcToLocalDate(slot))
        withKey == IF dateKey \in DOMAIN grouped THEN grouped ELSE grouped @@ (dateKey :> <<>>)
    IN GroupFromLast(slots, i + 1, [withKey EXCEPT ![dateKey] = <<slot>>])

RECURSIVE GroupFrom(_, _, _)
GroupFrom(slots, i, grouped) ==
  IF i > Len(slots) THEN grouped
  ELSE
    LET slot == slots[i]
        dateKey == formatDateKey(parseUtcToLocalDate(slot))
        withKey == IF dateKey \in DOMAIN grouped THEN grouped ELSE grouped @@ (dateKey :> <<>>)
    IN GroupFrom(slots, i + 1, [withKey EXCEPT ![dateKey] = Append(@, slot)])

\* The object groupSlotsByDate returns, as a function from its keys.
groupSlotsByDate(dat) ==
  IF NoSlots(dat) THEN <<>> ELSE GroupFrom(Get(Get(dat).available_slots), 1, <<>>)

RECURSIVE DatesFrom(_, _, _, _)
DatesFrom(slots, i, uniqueDates, dates) ==
  IF i > Len(slots) THEN dates
  ELSE
    LET date == parseUtcToLocalDate(slots[i])
        dateKey == formatDateKey(date)
    IN IF dateKey \in uniqueDates THEN DatesFrom(slots, i + 1, uniqueDates, dates)
       ELSE DatesFrom(slots, i + 1, uniqueDates \cup {dateKey},
                      Append(dates, NewDate(date.year, date.month, date.date, 0, 0)))

getDatesWithSlots(dat) ==
  IF NoSlots(dat) THEN <<>> ELSE DatesFrom(Get(Get(dat).available_slots), 1, {}, <<>>)

\* getSlotsForSelectedDate: the slots filed under the selected day that start
\* between 9:00 and 19:00.
getSlotsForSelectedDate(dat, selDate) ==
  IF selDate = None THEN <<>>
  ELSE
    LET dateKey == formatDateKey(Get(selDate))
        groupedSlots == groupSlotsByDate(dat)
        allSlots == IF dateKey \in DOMAIN groupedSlots THEN groupedSlots[dateKey] ELSE <<>>
    IN SelectSeq(allSlots, LAMBDA slot :
         LET hours == parseUtcToLocalDate(slot).hours IN hours >= 9 /\ hours < 19)

(***************************************************************************)
(* The values the environment supplies: what the backend answers, what the *)
(* user types and picks, what other windows post.                          *)
(***************************************************************************)
DayA == <<"2", "0", "2", "5", "-", "0", "6", "-", "0", "2">>
DayB == <<"2", "0", "2", "5", "-", "0", "6", "-", "0", "3">>
SlotA1 == DayA \o <<"T", "1", "0", ":", "0", "0">>
SlotA2 == DayA \o <<"T", "2", "0", ":", "0", "0", ":", "0", "0", "Z">>
SlotB1 == DayB \o <<"T", "0", "9", ":", "3", "0">>

MockWord == <<"m", "o", "c", "k">>
MockNote == <<"m", "o", "c", "k", " ", "d", "a", "t", "a">>

DayC == <<"2", "0", "2", "4", "-", "1", "2", "-", "3", "1">>
DayD == <<"2", "0", "2", "4", "-", "0", "2", "-", "2", "9">>
SlotC1 == DayC \o <<"T", "2", "3", ":", "5", "9">>
SlotD1 == DayD \o <<"T", "0", "8", ":", "0", "5", ":", "0", "0", "Z">>

\* ScheduleData; recommendations is never read by the component and is left out.
MockBody == [available_slots |-> Some(<<SlotA1, SlotB1>>), note |-> Some(MockNote)]
RealBody == [available_slots |-> Some(<<SlotA1, SlotA2, SlotB1>>), note |-> None]
ScheduleBodies == {MockBody, RealBody}
\* No body holds more slots, so no list shows more buttons.
MaxSlotButtons == Len(Get(RealBody.available_slots))

NlNoSlot ==
  [found_slot |-> None, event_name |-> None, event_description |-> None,
   message |-> "No matching slot"]
NlSlotOnly ==
  [found_slot |-> Some(SlotA2), event_name |-> None, event_description |-> None,
   message |-> "Found a slot"]
NlFull ==
  [found_slot |-> Some(SlotB1), event_name |-> Some("BBQ"),
   event_description |-> Some("party"), message |-> "Found a slot"]
CommandResults == {NlNoSlot, NlSlotOnly, NlFull}

Commands == {<<>>, <<" ">>, <<"g", "o">>}
EventNames == {"", "BBQ"}
EventDescriptions == {"", "party"}
AuthSuccess == "google-auth-success"
Messages == {AuthSuccess, "google-auth-failure"}
CalendarDays == {NewDate(2025, 5, 2, 0, 0), NewDate(2025, 5, 3, 0, 0), NewDate(2025, 5, 4, 0, 0)}

\* How a request ends: an OK response with a body that parses, an OK response
\* whose body does not parse, a non-OK status, a rejected fetch.
Outcomes == {"ok", "badBody", "notOk", "networkError"}
Failures == Outcomes \ {"ok"}

LoadFailed == "Failed to load schedule data. Please try again later."
CommandFailed == "Failed to process your command. Please try again or use manual selection."

\* The number of requests and popups the user and other windows start, and the
\* number of times the user picks or types something.
MaxEvents == 2
MaxEdits == 2

\* The timestamps groupSlotsByDate and getDatesWithSlots are applied to: every
\* list of at most MaxSlots of them, and a missing list, and no data at all.
MaxSlots == 3
SlotPool == {SlotA1, SlotA2, SlotB1, SlotC1, SlotD1}
SlotLists == UNION {[1..n -> SlotPool] : n \in 0..MaxSlots}
GroupInputs ==
  {None, Some([available_slots |-> None, note |-> None])}
    \cup {Some([available_slots |-> Some(slots), note |-> None]) : slots \in SlotLists}

\* The timestamps parseUtcToLocalDate is applied to, two at a time: valid dates
\* and times of the form YYYY-MM-DDTHH:MM alone, with seconds, milliseconds, Z
\* or an offset.
ParseInputs ==
  {SlotA1, SlotA2, SlotC1,
   DayA \o <<"T", "1", "0", ":", "0", "0", "+", "0", "5", ":", "3", "0">>,
   DayB \o <<"T", "0", "0", ":", "0", "0", ":", "0", "0", "-", "0", "8", ":", "0", "0">>,
   <<"2", "0", "2", "5", "-", "0", "3", "-", "0", "9", "T", "0", "2", ":", "3", "0", ":", "0", "0", "Z">>,
   <<"0", "0", "2", "5", "-", "0", "6", "-", "0", "2", "T", "1", "0", ":", "0", "0", "Z">>,
   <<"1", "9", "2", "5", "-", "0", "6", "-", "0", "2", "T", "2", "3", ":", "5", "9", ":", "5", "9", ".", "0", "0", "0", "Z">>}

VARIABLES
  \* useState
  data, error, loading, selectedSlot, selectedDate, isAuthenticated,
  showScheduleDialog, eventName, eventDescription, authLoading, usingRealData,
  dataLoading, nlCommand, nlProcessing, nlResult,
  \* the environment of the component
  mounted,    \* the mount effects have run
  inflight,   \* the requests awaiting a response, in the order they were issued
  pollers,    \* the popup-closed pollers running (their closures' isAuthenticated)
  timers,     \* the pending dialog-opening timeouts
  events,     \* how many more requests and popups the user and other windows start
  edits,      \* how many more times the user picks or types something
  retry,      \* what has become of the last press of Try Again
  grouped,    \* groupSlotsByDate(), once computed for data
  dates,      \* getDatesWithSlots(), once computed for data
  parsed,     \* two timestamps, a time zone, and what parseUtcToLocalDate makes of them
  last        \* the handler that ran last

ui == <<data, error, loading, selectedSlot, selectedDate, isAuthenticated,
        showScheduleDialog, eventName, eventDescription, authLoading, usingRealData,
        dataLoading, nlCommand, nlProcessing, nlResult>>
env == <<mounted, inflight, pollers, timers, events, edits, last>>
vars == <<ui, env, retry, grouped, dates, parsed>>

\* isAuthenticated as the first render's closures hold it for ever: the mount
\* effect's handleMessage and the useCallback(..., []) of handleDateSelect.
FirstRenderAuth == FALSE

Req(kind, trigger, auth, date, body) ==
  [kind |-> kind, trigger |-> trigger, auth |-> auth, date |-> date, body |-> body,
   overtaken |-> FALSE]

\* fetchData that ignores its argument.
FetchReqUndated(trigger, auth, date) == Req("schedule", trigger, auth, None, None)

\* The request fetchData(date) issues from a closure holding isAuthenticated = auth.
FetchReq(trigger, auth, date) == Req("schedule", trigger, auth, date, None)

\* What ran last: a handler (op, with its argument), or the continuation of the
\* request req that ended as arg, with the body val of an OK response.
Did(op, arg) == [op |-> op, arg |-> arg, req |-> None, val |-> None]
Answered(r, outcome, val) == [op |-> r.kind, arg |-> outcome, req |-> Some(r), val |-> val]

\* No press of Try Again is being followed.
Idle == [st |-> "idle", tracked |-> 0, late |-> FALSE]

\* The state after construction, whatever data holds: the useState initial
\* values, nothing in flight, nothing computed.
Constructed ==
  /\ error = None /\ loading = TRUE
  /\ selectedSlot = None /\ selectedDate = None /\ isAuthenticated = FALSE
  /\ showScheduleDialog = FALSE /\ eventName = "" /\ eventDescription = ""
  /\ authLoading = FALSE /\ usingRealData = FALSE /\ dataLoading = TRUE
  /\ nlCommand = <<>> /\ nlProcessing = FALSE /\ nlResult = None
  /\ mounted = FALSE /\ inflight = <<>> /\ pollers = <<>> /\ timers = 0
  /\ events = MaxEvents /\ edits = MaxEdits /\ last = Did("init", "")
  /\ retry = Idle /\ grouped = None /\ dates = None

Init == data = None /\ parsed = None /\ Constructed

\* The sequence s without its i-th element.
Without(s, i) == SubSeq(s, 1, i - 1) \o SubSeq(s, i + 1, Len(s))

\* The two mount effects: checkAuthStatus() and fetchData(), then refreshData(),
\* whose await of fetchData() ends as soon as the request is issued.
Mount ==
  /\ ~mounted
  /\ mounted' = TRUE
  /\ inflight' = <<Req("status", "mount", isAuthenticated, None, None),
                   FetchReq("mount", isAuthenticated, None),
                   FetchReq("authEffect", isAuthenticated, None)>>
  /\ dataLoading' = TRUE
  /\ error' = None
  /\ loading' = FALSE
  /\ authLoading' = FALSE
  /\ last' = Did("mount", "")
  /\ UNCHANGED <<data, selectedSlot, selectedDate, isAuthenticated, showScheduleDialog,
                 eventName, eventDescription, usingRealData, nlCommand, nlProcessing,
                 nlResult, pollers, timers, events, edits>>

\* The [isAuthenticated] effect, were it to refetch only when the user has
\* become unauthenticated.
AuthEffectReqsOnLogout(newAuth) ==
  IF newAuth # isAuthenticated /\ ~newAuth THEN <<FetchReq("authEffect", newAuth, None)>>
  ELSE <<>>

\* The fetchData() of the [isAuthenticated] effect, run when a commit changes
\* isAuthenticated to newAuth.
AuthEffectReqs(newAuth) ==
  IF newAuth # isAuthenticated THEN <<FetchReq("authEffect", newAuth, None)>> ELSE <<>>

\* checkAuthStatus, were a failed check to count as "not authenticated".
StatusResponseFailLogsOut(i, outcome, authenticated) ==
  LET r == inflight[i]
      newAuth == IF outcome = "ok" THEN authenticated ELSE FALSE
      thenReqs ==
        IF r.trigger = "message" THEN <<FetchReq("message", r.auth, None)>>
        ELSE IF r.trigger = "popup" /\ r.auth THEN <<FetchReq("popup", r.auth, None)>>
        ELSE <<>>
      issued == thenReqs \o AuthEffectReqs(newAuth)
  IN
  /\ r.kind = "status"
  /\ isAuthenticated' = newAuth
  /\ inflight' = Without(inflight, i) \o issued
  /\ dataLoading' = IF issued # <<>> THEN TRUE ELSE dataLoading
  /\ error' = IF issued # <<>> THEN None ELSE error
  /\ authLoading' =
       IF r.trigger = "message" \/ newAuth # isAuthenticated THEN FALSE ELSE authLoading
  /\ loading' = IF newAuth # isAuthenticated THEN FALSE ELSE loading
  /\ last' = Answered(r, outcome, IF outcome = "ok" THEN Some(authenticated) ELSE None)
  /\ UNCHANGED <<data, selectedSlot, selectedDate, showScheduleDialog, eventName,
                 eventDescription, usingRealData, nlCommand, nlProcessing, nlResult,
                 mounted, pollers, timers, events, edits>>

\* A response to GET /auth/status and what the caller chained to it.
StatusResponse(i, outcome, authenticated) ==
  LET r == inflight[i]
      newAuth == IF outcome = "ok" THEN authenticated ELSE isAuthenticated
      thenReqs ==
        IF r.trigger = "message" THEN <<FetchReq("message", r.auth, None)>>
        ELSE IF r.trigger = "popup" /\ r.auth THEN <<FetchReq("popup", r.auth, None)>>
        ELSE <<>>
      issued == thenReqs \o AuthEffectReqs(newAuth)
  IN
  /\ r.kind = "status"
  /\ isAuthenticated' = newAuth
  /\ inflight' = Without(inflight, i) \o issued
  /\ dataLoading' = IF issued # <<>> THEN TRUE ELSE dataLoading
  /\ error' = IF issued # <<>> THEN None ELSE error
  /\ authLoading' =
       IF r.trigger = "message" \/ newAuth # isAuthenticated THEN FALSE ELSE authLoading
  /\ loading' = IF newAuth # isAuthenticated THEN FALSE ELSE loading
  /\ last' = Answered(r, outcome, IF outcome = "ok" THEN Some(authenticated) ELSE None)
  /\ UNCHANGED <<data, selectedSlot, selectedDate, showScheduleDialog, eventName,
                 eventDescription, usingRealData, nlCommand, nlProcessing, nlResult,
                 mounted, pollers, timers, events, edits>>

\* The schedule requests issued before the i-th have now been answered later
\* than a request issued after them.
MarkOvertaken(reqs, i) ==
  [j \in 1..Len(reqs) |->
     IF j < i /\ reqs[j].kind = "schedule" THEN [reqs[j] EXCEPT !.overtaken = TRUE]
     ELSE reqs[j]]

\* fetchData's .then chain, were the response of a request dropped once a request
\* issued after it has been answered.
ScheduleOkUnlessOvertaken(i, body) ==
  LET r == inflight[i] IN
  /\ r.kind = "schedule"
  /\ data' = IF r.overtaken THEN data ELSE Some(body)
  /\ usingRealData' = (r.auth /\ ~(body.note # None /\ Includes(Get(body.note), MockWord)))
  /\ dataLoading' = FALSE
  /\ inflight' = Without(MarkOvertaken(inflight, i), i)
  /\ last' = Answered(r, "ok", Some(body))
  /\ UNCHANGED <<error, loading, selectedSlot, selectedDate, isAuthenticated,
                 showScheduleDialog, eventName, eventDescription, authLoading,
                 nlCommand, nlProcessing, nlResult, mounted, pollers, timers, events, edits>>

\* fetchData's .then chain without its setDataLoading(false).
ScheduleOkStillLoading(i, body) ==
  LET r == inflight[i] IN
  /\ r.kind = "schedule"
  /\ data' = Some(body)
  /\ usingRealData' = (r.auth /\ ~(body.note # None /\ Includes(Get(body.note), MockWord)))
  /\ inflight' = Without(MarkOvertaken(inflight, i), i)
  /\ last' = Answered(r, "ok", Some(body))
  /\ UNCHANGED <<error, loading, selectedSlot, selectedDate, isAuthenticated,
                 showScheduleDialog, eventName, eventDescription, authLoading,
                 dataLoading, nlCommand, nlProcessing, nlResult, mounted, pollers,
                 timers, events, edits>>

\* The .then chain of fetchData, on an OK response with a body that parses.
ScheduleOk(i, body) ==
  LET r == inflight[i] IN
  /\ r.kind = "schedule"
  /\ data' = Some(body)
  /\ usingRealData' = (r.auth /\ ~(body.note # None /\ Includes(Get(body.note), MockWord)))
  /\ dataLoading' = FALSE
  /\ inflight' = Without(MarkOvertaken(inflight, i), i)
  /\ last' = Answered(r, "ok", Some(body))
  /\ UNCHANGED <<error, loading, selectedSlot, selectedDate, isAuthenticated,
                 showScheduleDialog, eventName, eventDescription, authLoading,
                 nlCommand, nlProcessing, nlResult, mounted, pollers, timers, events, edits>>

\* fetchData's .catch, were it to drop the data shown.
ScheduleFailClearing(i, outcome) ==
  LET r == inflight[i] IN
  /\ r.kind = "schedule"
  /\ error' = Some(LoadFailed)
  /\ dataLoading' = FALSE
  /\ data' = None
  /\ inflight' = Without(MarkOvertaken(inflight, i), i)
  /\ last' = Answered(r, outcome, None)
  /\ UNCHANGED <<loading, selectedSlot, selectedDate, isAuthenticated,
                 showScheduleDialog, eventName, eventDescription, authLoading,
                 usingRealData, nlCommand, nlProcessing, nlResult, mounted, pollers,
                 timers, events, edits>>

\* fetchData's .catch without its setDataLoading(false).
ScheduleFailStillLoading(i, outcome) ==
  LET r == inflight[i] IN
  /\ r.kind = "schedule"
  /\ error' = Some(LoadFailed)
  /\ inflight' = Without(MarkOvertaken(inflight, i), i)
  /\ last' = Answered(r, outcome, None)
  /\ UNCHANGED <<data, loading, selectedSlot, selectedDate, isAuthenticated,
                 showScheduleDialog, eventName, eventDescription, authLoading,
                 usingRealData, dataLoading, nlCommand, nlProcessing, nlResult, mounted,
                 pollers, timers, events, edits>>

\* The .catch of fetchData: a non-OK status, a rejected fetch, a body that does
\* not parse.
ScheduleFail(i, outcome) ==
  LET r == inflight[i] IN
  /\ r.kind = "schedule"
  /\ error' = Some(LoadFailed)
  /\ dataLoading' = FALSE
  /\ inflight' = Without(MarkOvertaken(inflight, i), i)
  /\ last' = Answered(r, outcome, None)
  /\ UNCHANGED <<data, loading, selectedSlot, selectedDate, isAuthenticated,
                 showScheduleDialog, eventName, eventDescription, authLoading,
                 usingRealData, nlCommand, nlProcessing, nlResult, mounted, pollers,
                 timers, events, edits>>

\* logoutFromGoogle after its await, on response.ok; the body is never read.
LogoutOk(i) ==
  LET r == inflight[i] IN
  /\ r.kind = "logout"
  /\ isAuthenticated' = FALSE
  /\ selectedSlot' = None
  /\ selectedDate' = None
  /\ data' = None
  /\ inflight' = Without(inflight, i) \o <<FetchReq("logout", r.auth, None)>>
                   \o AuthEffectReqs(FALSE)
  /\ dataLoading' = TRUE
  /\ error' = None
  /\ loading' = FALSE
  /\ authLoading' = FALSE
  /\ last' = Answered(r, "ok", None)
  /\ UNCHANGED <<showScheduleDialog, eventName, eventDescription, usingRealData,
                 nlCommand, nlProcessing, nlResult, mounted, pollers, timers, events, edits>>

\* logoutFromGoogle's failure path without the finally block.
LogoutFailNoFinally(i, outcome) ==
  LET r == inflight[i] IN
  /\ r.kind = "logout"
  /\ inflight' = Without(inflight, i)
  /\ last' = Answered(r, outcome, None)
  /\ UNCHANGED <<ui, mounted, pollers, timers, events, edits>>

\* logoutFromGoogle after its await, on a non-OK response or a rejected fetch.
LogoutFail(i, outcome) ==
  LET r == inflight[i] IN
  /\ r.kind = "logout"
  /\ loading' = FALSE
  /\ authLoading' = FALSE
  /\ inflight' = Without(inflight, i)
  /\ last' = Answered(r, outcome, None)
  /\ UNCHANGED <<data, error, selectedSlot, selectedDate, isAuthenticated,
                 showScheduleDialog, eventName, eventDescription, usingRealData,
                 dataLoading, nlCommand, nlProcessing, nlResult, mounted, pollers,
                 timers, events, edits>>

\* scheduleEvent's success path without setEventName("").
CreateOkKeepingName(i) ==
  LET r == inflight[i] IN
  /\ r.kind = "create"
  /\ showScheduleDialog' = FALSE
  /\ selectedSlot' = None
  /\ eventDescription' = ""
  /\ inflight' = Append(Without(inflight, i), FetchReq("create", r.auth, None))
  /\ dataLoading' = TRUE
  /\ error' = None
  /\ last' = Answered(r, "ok", None)
  /\ UNCHANGED <<data, loading, selectedDate, isAuthenticated, authLoading, eventName,
                 usingRealData, nlCommand, nlProcessing, nlResult, mounted, pollers,
                 timers, events, edits>>

\* scheduleEvent after its await, on an OK response with a body that parses.
CreateOk(i) ==
  LET r == inflight[i] IN
  /\ r.kind = "create"
  /\ showScheduleDialog' = FALSE
  /\ selectedSlot' = None
  /\ eventName' = ""
  /\ eventDescription' = ""
  /\ inflight' = Append(Without(inflight, i), FetchReq("create", r.auth, None))
  /\ dataLoading' = TRUE
  /\ error' = None
  /\ last' = Answered(r, "ok", None)
  /\ UNCHANGED <<data, loading, selectedDate, isAuthenticated, authLoading,
                 usingRealData, nlCommand, nlProcessing, nlResult, mounted, pollers,
                 timers, events, edits>>

\* scheduleEvent's catch, were it to close the dialog as the success path does.
CreateFailClosing(i, outcome) ==
  LET r == inflight[i] IN
  /\ r.kind = "create"
  /\ showScheduleDialog' = FALSE
  /\ inflight' = Without(inflight, i)
  /\ last' = Answered(r, outcome, None)
  /\ UNCHANGED <<data, error, loading, selectedSlot, selectedDate, isAuthenticated,
                 eventName, eventDescription, authLoading, usingRealData, dataLoading,
                 nlCommand, nlProcessing, nlResult, mounted, pollers, timers, events,
                 edits>>

\* scheduleEvent's catch: an alert, and no state update.
CreateFail(i, outcome) ==
  LET r == inflight[i] IN
  /\ r.kind = "create"
  /\ inflight' = Without(inflight, i)
  /\ last' = Answered(r, outcome, None)
  /\ UNCHANGED <<ui, mounted, pollers, timers, events, edits>>

\* JavaScript truthiness of an optional string: of characters (found_slot,
\* selectedSlot), or one the code never looks into (event_name).
Truthy(o) == o # None /\ Get(o) # <<>>
TruthyText(o) == o # None /\ Get(o) # ""
OrEmpty(o) == IF TruthyText(o) THEN Get(o) ELSE ""

\* processNaturalLanguage opening the dialog whenever a slot was found.
CommandOkAlwaysOpening(i, result) ==
  LET r == inflight[i]
      found == Truthy(result.found_slot)
      slotString == Get(result.found_slot)
      datePart == Split(slotString, "T")[1]
      ymd == Split(datePart, "-")
      dateOnly == NewDate(Number(ymd[1]),
                          IF Number(ymd[2]) = NaN THEN NaN ELSE Number(ymd[2]) - 1,
                          Number(ymd[3]), 0, 0)
  IN
  /\ r.kind = "command"
  /\ nlResult' = Some(result)
  /\ selectedDate' = IF found THEN Some(dateOnly) ELSE selectedDate
  /\ selectedSlot' = IF found THEN Some(slotString) ELSE selectedSlot
  /\ eventName' = IF found THEN OrEmpty(result.event_name) ELSE eventName
  /\ eventDescription' = IF found THEN OrEmpty(result.event_description) ELSE eventDescription
  /\ timers' = IF found THEN timers + 1 ELSE timers
  /\ nlProcessing' = FALSE
  /\ inflight' = Without(inflight, i)
  /\ last' = Answered(r, "ok", Some(result))
  /\ UNCHANGED <<data, error, loading, isAuthenticated, showScheduleDialog, authLoading,
                 usingRealData, dataLoading, nlCommand, mounted, pollers, events, edits>>

\* processNaturalLanguage after its await, on an OK response with a body that
\* parses.
CommandOk(i, result) ==
  LET r == inflight[i]
      found == Truthy(result.found_slot)
      slotString == Get(result.found_slot)
      datePart == Split(slotString, "T")[1]
      ymd == Split(datePart, "-")
      dateOnly == NewDate(Number(ymd[1]),
                          IF Number(ymd[2]) = NaN THEN NaN ELSE Number(ymd[2]) - 1,
                          Number(ymd[3]), 0, 0)
  IN
  /\ r.kind = "command"
  /\ nlResult' = Some(result)
  /\ selectedDate' = IF found THEN Some(dateOnly) ELSE selectedDate
  /\ selectedSlot' = IF found THEN Some(slotString) ELSE selectedSlot
  /\ eventName' = IF found THEN OrEmpty(result.event_name) ELSE eventName
  /\ eventDescription' = IF found THEN OrEmpty(result.event_description) ELSE eventDescription
  /\ timers' = IF found /\ TruthyText(result.event_name) THEN timers + 1 ELSE timers
  /\ nlProcessing' = FALSE
  /\ inflight' = Without(inflight, i)
  /\ last' = Answered(r, "ok", Some(result))
  /\ UNCHANGED <<data, error, loading, isAuthenticated, showScheduleDialog, authLoading,
                 usingRealData, dataLoading, nlCommand, mounted, pollers, events, edits>>

\* processNaturalLanguage's catch without its setError.
CommandFailSilent(i, outcome) ==
  LET r == inflight[i] IN
  /\ r.kind = "command"
  /\ nlProcessing' = FALSE
  /\ inflight' = Without(inflight, i)
  /\ last' = Answered(r, outcome, None)
  /\ UNCHANGED <<data, error, loading, selectedSlot, selectedDate, isAuthenticated,
                 showScheduleDialog, eventName, eventDescription, authLoading,
                 usingRealData, dataLoading, nlCommand, nlResult, mounted, pollers,
                 timers, events, edits>>

\* processNaturalLanguage without its finally.
CommandFailStillProcessing(i, outcome) ==
  LET r == inflight[i] IN
  /\ r.kind = "command"
  /\ error' = Some(CommandFailed)
  /\ inflight' = Without(inflight, i)
  /\ last' = Answered(r, outcome, None)
  /\ UNCHANGED <<data, loading, selectedSlot, selectedDate, isAuthenticated,
                 showScheduleDialog, eventName, eventDescription, authLoading,
                 usingRealData, dataLoading, nlCommand, nlProcessing, nlResult, mounted,
                 pollers, timers, events, edits>>

\* processNaturalLanguage's catch and finally.
CommandFail(i, outcome) ==
  LET r == inflight[i] IN
  /\ r.kind = "command"
  /\ error' = Some(CommandFailed)
  /\ nlProcessing' = FALSE
  /\ inflight' = Without(inflight, i)
  /\ last' = Answered(r, outcome, None)
  /\ UNCHANGED <<data, loading, selectedSlot, selectedDate, isAuthenticated,
                 showScheduleDialog, eventName, eventDescription, authLoading,
                 usingRealData, dataLoading, nlCommand, nlResult, mounted, pollers,
                 timers, events, edits>>

\* The timeout processNaturalLanguage set fires.
DialogTimer ==
  /\ timers > 0
  /\ timers' = timers - 1
  /\ showScheduleDialog' = TRUE
  /\ last' = Did("dialogTimer", "")
  /\ UNCHANGED <<data, error, loading, selectedSlot, selectedDate, isAuthenticated,
                 eventName, eventDescription, authLoading, usingRealData, dataLoading,
                 nlCommand, nlProcessing, nlResult, mounted, inflight, pollers, events, edits>>

(***************************************************************************)
(* What is rendered, and the handlers the rendered elements call.          *)
(***************************************************************************)
\* The content branches with data looked at before isAuthenticated.
ViewDataFirst ==
  IF loading THEN "skeleton"
  ELSE IF error # None THEN "error"
  ELSE IF data # None THEN "slots"
  ELSE IF ~isAuthenticated THEN "login"
  ELSE "nodata"

View ==
  IF loading THEN "skeleton"
  ELSE IF error # None THEN "error"
  ELSE IF ~isAuthenticated THEN "login"
  ELSE IF data # None THEN "slots"
  ELSE "nodata"

\* hasAvailableSlots(date); isInFutureRange is what the clock makes of
\* date >= now && date <= now + 5 days.
hasAvailableSlots(date, isInFutureRange) ==
  IF loading \/ dataLoading \/ (authLoading /\ ~usingRealData) THEN FALSE
  ELSE IF isAuthenticated /\ usingRealData
          /\ (NoSlots(data) \/ Len(Get(Get(data).available_slots)) = 0)
    THEN isInFutureRange
  ELSE LET dateKey == formatDateKey(date)
           groupedSlotsData == groupSlotsByDate(data)
       IN dateKey \in DOMAIN groupedSlotsData /\ Len(groupedSlotsData[dateKey]) > 0

\* handleMessage without the test of event.data.
MessageEventAny(m) ==
  /\ mounted
  /\ inflight' = Append(inflight, Req("status", "message", FirstRenderAuth, None, None))
  /\ last' = Did("message", m)
  /\ UNCHANGED <<ui, mounted, pollers, timers>>

\* A message event on the window.
MessageEvent(m) ==
  /\ mounted
  /\ inflight' = IF m = AuthSuccess
                 THEN Append(inflight, Req("status", "message", FirstRenderAuth, None, None))
                 ELSE inflight
  /\ last' = Did("message", m)
  /\ UNCHANGED <<ui, mounted, pollers, timers>>

\* connectWithGoogle, from a render with isAuthenticated = auth: the popup is
\* opened and a poller started.
ConnectClick ==
  /\ mounted
  /\ ~isAuthenticated
  /\ ~authLoading
  /\ authLoading' = TRUE
  /\ pollers' = Append(pollers, isAuthenticated)
  /\ last' = Did("connect", "")
  /\ UNCHANGED <<data, error, loading, selectedSlot, selectedDate, isAuthenticated,
                 showScheduleDialog, eventName, eventDescription, usingRealData,
                 dataLoading, nlCommand, nlProcessing, nlResult, mounted, inflight,
                 timers>>

\* A poller finds the popup closed.
PopupClosed(k) ==
  /\ k \in 1..Len(pollers)
  /\ pollers' = Without(pollers, k)
  /\ inflight' = Append(inflight, Req("status", "popup", pollers[k], None, None))
  /\ authLoading' = FALSE
  /\ last' = Did("popupClosed", "")
  /\ UNCHANGED <<events, edits>>
  /\ UNCHANGED <<data, error, loading, selectedSlot, selectedDate, isAuthenticated,
                 showScheduleDialog, eventName, eventDescription, usingRealData,
                 dataLoading, nlCommand, nlProcessing, nlResult, mounted, timers>>

\* The header's Log Out button (disabled while authLoading) sets authLoading and
\* calls logoutFromGoogle; the footer's Switch Account calls it directly.
LogoutClick(button) ==
  /\ mounted
  /\ isAuthenticated
  /\ button = "header" => ~authLoading
  /\ authLoading' = IF button = "header" THEN TRUE ELSE authLoading
  /\ loading' = TRUE
  /\ inflight' = Append(inflight, Req("logout", "click", isAuthenticated, None, None))
  /\ last' = Did("logoutClick", button)
  /\ UNCHANGED <<data, error, selectedSlot, selectedDate, isAuthenticated,
                 showScheduleDialog, eventName, eventDescription, usingRealData,
                 dataLoading, nlCommand, nlProcessing, nlResult, mounted, pollers,
                 timers>>

\* The Try Again button of the error banner: fetchData().
TryAgain ==
  /\ mounted
  /\ View = "error"
  /\ dataLoading' = TRUE
  /\ error' = None
  /\ inflight' = Append(inflight, FetchReq("retry", isAuthenticated, None))
  /\ last' = Did("tryAgain", "")
  /\ UNCHANGED <<data, loading, selectedSlot, selectedDate, isAuthenticated,
                 showScheduleDialog, eventName, eventDescription, authLoading,
                 usingRealData, nlCommand, nlProcessing, nlResult, mounted, pollers,
                 timers>>

\* handleDateSelect(date), called by the calendar widget with an enabled day, or
\* with undefined when the selected day is clicked again.
CalendarSelect(date) ==
  /\ mounted
  /\ View = "slots"
  /\ date = None => selectedDate # None
  /\ \E isInFutureRange \in BOOLEAN :
       hasAvailableSlots(Get(IF date = None THEN selectedDate ELSE date), isInFutureRange)
  /\ IF date # None
     THEN /\ selectedDate' = date
          /\ dataLoading' = TRUE
          /\ error' = None
          /\ inflight' = Append(inflight, FetchReq("calendar", FirstRenderAuth, date))
     ELSE UNCHANGED <<selectedDate, dataLoading, error, inflight>>
  /\ last' = Did("handleDateSelect", IF date = None THEN "undefined" ELSE "date")
  /\ UNCHANGED <<data, loading, selectedSlot, isAuthenticated, showScheduleDialog,
                 eventName, eventDescription, authLoading, usingRealData, nlCommand,
                 nlProcessing, nlResult, mounted, pollers, timers>>

\* A button of the Available Dates list: setSelectedDate(date).
DateButtonClick(k) ==
  /\ mounted
  /\ View = "slots"
  /\ k \in 1..Len(getDatesWithSlots(data))
  /\ selectedDate' = Some(getDatesWithSlots(data)[k])
  /\ last' = Did("dateButton", "")
  /\ UNCHANGED <<data, error, loading, selectedSlot, isAuthenticated, showScheduleDialog,
                 eventName, eventDescription, authLoading, usingRealData, dataLoading,
                 nlCommand, nlProcessing, nlResult, mounted, inflight, pollers, timers>>

\* handleSlotSelect(slot), from a TimeSlot button of the selected day.
TimeSlotClick(k) ==
  /\ mounted
  /\ View = "slots"
  /\ k \in 1..Len(getSlotsForSelectedDate(data, selectedDate))
  /\ selectedSlot' = Some(getSlotsForSelectedDate(data, selectedDate)[k])
  /\ showScheduleDialog' = IF isAuthenticated THEN TRUE ELSE showScheduleDialog
  /\ last' = Did("handleSlotSelect", "")
  /\ UNCHANGED <<data, error, loading, selectedDate, isAuthenticated, eventName,
                 eventDescription, authLoading, usingRealData, dataLoading, nlCommand,
                 nlProcessing, nlResult, mounted, inflight, pollers, timers>>

\* openScheduleDialog, from the Schedule Meeting button under a selected slot.
OpenScheduleDialog ==
  /\ mounted
  /\ View = "slots"
  /\ Truthy(selectedSlot)
  /\ IF ~isAuthenticated
     THEN /\ authLoading' = TRUE
          /\ pollers' = Append(pollers, isAuthenticated)
          /\ UNCHANGED showScheduleDialog
     ELSE /\ showScheduleDialog' = TRUE
          /\ UNCHANGED <<authLoading, pollers>>
  /\ last' = Did("openScheduleDialog", "")
  /\ UNCHANGED <<data, error, loading, selectedSlot, selectedDate, isAuthenticated,
                 eventName, eventDescription, usingRealData, dataLoading, nlCommand,
                 nlProcessing, nlResult, mounted, inflight, timers>>

\* The dialog's inputs, Cancel button and onOpenChange(false).
SetEventName(v) ==
  /\ showScheduleDialog
  /\ eventName' = v
  /\ last' = Did("setEventName", v)
  /\ UNCHANGED <<data, error, loading, selectedSlot, selectedDate, isAuthenticated,
                 showScheduleDialog, eventDescription, authLoading, usingRealData,
                 dataLoading, nlCommand, nlProcessing, nlResult, mounted, inflight,
                 pollers, timers>>

SetEventDescription(v) ==
  /\ showScheduleDialog
  /\ eventDescription' = v
  /\ last' = Did("setEventDescription", v)
  /\ UNCHANGED <<data, error, loading, selectedSlot, selectedDate, isAuthenticated,
                 showScheduleDialog, eventName, authLoading, usingRealData,
                 dataLoading, nlCommand, nlProcessing, nlResult, mounted, inflight,
                 pollers, timers>>

CloseDialog ==
  /\ showScheduleDialog
  /\ showScheduleDialog' = FALSE
  /\ last' = Did("closeDialog", "")
  /\ UNCHANGED <<data, error, loading, selectedSlot, selectedDate, isAuthenticated,
                 eventName, eventDescription, authLoading, usingRealData, dataLoading,
                 nlCommand, nlProcessing, nlResult, mounted, inflight, pollers, timers>>

\* scheduleEvent with summary and description swapped in the body.
ScheduleEventClickSwapped ==
  /\ showScheduleDialog
  /\ IF ~Truthy(selectedSlot)
     THEN UNCHANGED inflight
     ELSE /\ inflight' = Append(inflight,
               Req("create", "click", isAuthenticated, None,
                   Some([start_time |-> Get(selectedSlot), summary |-> eventDescription,
                         description |-> eventName])))
  /\ last' = Did("scheduleEvent", "")
  /\ UNCHANGED <<ui, mounted, pollers, timers>>

\* scheduleEvent up to its await, from the dialog's Schedule Event button.
ScheduleEventClick ==
  /\ showScheduleDialog
  /\ IF ~Truthy(selectedSlot)
     THEN UNCHANGED inflight
     ELSE /\ inflight' = Append(inflight,
               Req("create", "click", isAuthenticated, None,
                   Some([start_time |-> Get(selectedSlot), summary |-> eventName,
                         description |-> eventDescription])))
  /\ last' = Did("scheduleEvent", "")
  /\ UNCHANGED <<ui, mounted, pollers, timers>>

\* The command input, shown to an authenticated user.
SetNlCommand(v) ==
  /\ mounted
  /\ isAuthenticated
  /\ nlCommand' = v
  /\ last' = Did("setNlCommand", "")
  /\ UNCHANGED <<data, error, loading, selectedSlot, selectedDate, isAuthenticated,
                 showScheduleDialog, eventName, eventDescription, authLoading,
                 usingRealData, dataLoading, nlProcessing, nlResult, mounted, inflight,
                 pollers, timers>>

\* processNaturalLanguage with the guard !nlCommand in place of !nlCommand.trim().
ProcessCommandClickUntrimmed(via) ==
  /\ mounted
  /\ isAuthenticated
  /\ via = "button" => ~nlProcessing /\ Trim(nlCommand) # <<>>
  /\ IF nlCommand = <<>> \/ ~isAuthenticated
     THEN UNCHANGED <<nlProcessing, inflight>>
     ELSE /\ nlProcessing' = TRUE
          /\ inflight' = Append(inflight,
               Req("command", "click", isAuthenticated, None,
                   Some([command |-> nlCommand])))
  /\ last' = Did("processNaturalLanguage", via)
  /\ UNCHANGED <<data, error, loading, selectedSlot, selectedDate, isAuthenticated,
                 showScheduleDialog, eventName, eventDescription, authLoading,
                 usingRealData, dataLoading, nlCommand, nlResult, mounted, pollers,
                 timers>>

\* processNaturalLanguage up to its await, from the Schedule It button (disabled
\* while nlProcessing or for a blank command) or the Enter key of the input.
ProcessCommandClick(via) ==
  /\ mounted
  /\ isAuthenticated
  /\ via = "button" => ~nlProcessing /\ Trim(nlCommand) # <<>>
  /\ IF Trim(nlCommand) = <<>> \/ ~isAuthenticated
     THEN UNCHANGED <<nlProcessing, inflight>>
     ELSE /\ nlProcessing' = TRUE
          /\ inflight' = Append(inflight,
               Req("command", "click", isAuthenticated, None,
                   Some([command |-> nlCommand])))
  /\ last' = Did("processNaturalLanguage", via)
  /\ UNCHANGED <<data, error, loading, selectedSlot, selectedDate, isAuthenticated,
                 showScheduleDialog, eventName, eventDescription, authLoading,
                 usingRealData, dataLoading, nlCommand, nlResult, mounted, pollers,
                 timers>>

(***************************************************************************)
(* What becomes of a press of Try Again.  From the press on, the requests  *)
(* then in flight are the first retry.tracked of inflight.  The press is   *)
(* "broken" once one of them has failed and "done" once the component has  *)
(* recovered; late says that a request issued after the press has failed.  *)
(***************************************************************************)
Recovered == error = None /\ ~dataLoading /\ data # None

RetryAfter(i) ==
  IF last'.op = "tryAgain"
    THEN [st |-> "pending", tracked |-> Len(inflight'), late |-> FALSE]
  ELSE IF retry.st # "pending" THEN retry
  ELSE
    LET failed == i > 0 /\ last'.arg \in Failures
        wasTracked == i \in 1..retry.tracked
    IN IF failed /\ wasTracked THEN [st |-> "broken", tracked |-> 0, late |-> FALSE]
       ELSE IF Recovered' THEN [st |-> "done", tracked |-> 0, late |-> FALSE]
       ELSE [st |-> "pending",
             tracked |-> IF wasTracked THEN retry.tracked - 1 ELSE retry.tracked,
             late |-> retry.late \/ failed]

\* What a step that answers the i-th request in flight (none: i = 0) leaves of
\* the variables no handler writes.
Step(i) == retry' = RetryAfter(i) /\ UNCHANGED <<grouped, dates, parsed>>

Response(i) ==
  \/ \E outcome \in Outcomes, authenticated \in BOOLEAN :
       StatusResponse(i, outcome, authenticated)
  \/ \E body \in ScheduleBodies : ScheduleOk(i, body)
  \/ \E outcome \in Failures : ScheduleFail(i, outcome)
  \/ LogoutOk(i)
  \/ \E outcome \in Failures \ {"badBody"} : LogoutFail(i, outcome)
  \/ CreateOk(i)
  \/ \E outcome \in Failures : CreateFail(i, outcome)
  \/ \E result \in CommandResults : CommandOk(i, result)
  \/ \E outcome \in Failures : CommandFail(i, outcome)

\* What the user does and other windows post that may start a request or a
\* popup: MaxEvents of them at most.
UserEvent ==
  /\ events > 0
  /\ events' = events - 1
  /\ UNCHANGED edits
  /\ \/ \E m \in Messages : MessageEvent(m)
     \/ ConnectClick
     \/ \E button \in {"header", "footer"} : LogoutClick(button)
     \/ TryAgain
     \/ \E date \in {None} \cup {Some(d) : d \in CalendarDays} : CalendarSelect(date)
     \/ Truthy(selectedSlot) /\ ScheduleEventClick
     \/ \E via \in {"button", "enter"} : ProcessCommandClick(via)

\* What the user picks and types: MaxEdits of them at most, each while no
\* request awaits its response.
UserEdit ==
  /\ edits > 0
  /\ inflight = <<>>
  /\ edits' = edits - 1
  /\ UNCHANGED events
  /\ \/ \E k \in 1..MaxSlotButtons : DateButtonClick(k)
     \/ \E k \in 1..MaxSlotButtons : TimeSlotClick(k)
     \/ OpenScheduleDialog
     \/ \E v \in EventNames : SetEventName(v)
     \/ \E v \in EventDescriptions : SetEventDescription(v)
     \/ CloseDialog
     \/ \E v \in Commands : SetNlCommand(v)

\* The Schedule Event button pressed with no slot selected; it is not counted.
Ignored ==
  /\ ~Truthy(selectedSlot)
  /\ ScheduleEventClick
  /\ UNCHANGED <<events, edits>>

Next ==
  \/ Mount /\ Step(0)
  \/ \E i \in 1..Len(inflight) : Response(i) /\ Step(i)
  \/ DialogTimer /\ Step(0)
  \/ \E k \in 1..Len(pollers) : PopupClosed(k) /\ Step(0)
  \/ UserEvent /\ Step(0)
  \/ UserEdit /\ Step(0)
  \/ Ignored /\ Step(0)

Spec == Init /\ [][Next]_vars

\* The responses arrive: a request in flight is answered sooner or later.
FairSpec == Spec /\ WF_vars(\E i \in 1..Len(inflight) : Response(i) /\ Step(i))

(***************************************************************************)
(* groupSlotsByDate and getDatesWithSlots, applied to any data.            *)
(***************************************************************************)
InitGroup == data \in GroupInputs /\ parsed = None /\ Constructed

ApplyGroup ==
  /\ grouped = None
  /\ grouped' = Some(groupSlotsByDate(data))
  /\ UNCHANGED <<ui, env, retry, dates, parsed>>

ApplyDates ==
  /\ dates = None
  /\ dates' = Some(getDatesWithSlots(data))
  /\ UNCHANGED <<ui, env, retry, grouped, parsed>>

NextGroup == ApplyGroup \/ ApplyDates

SpecGroup == InitGroup /\ [][NextGroup]_vars

(***************************************************************************)
(* parseUtcToLocalDate and formatDateKey, applied to any two timestamps in  *)
(* any of the zones.                                                        *)
(***************************************************************************)
InitParse ==
  /\ data = None
  /\ Constructed
  /\ parsed \in {Some([first |-> a, second |-> b, zone |-> z, dates |-> None, keys |-> None]) :
                   a \in ParseInputs, b \in ParseInputs, z \in Zones}

ParseSlots ==
  /\ Get(parsed).dates = None
  /\ parsed' = Some([Get(parsed) EXCEPT !.dates =
         Some(<<parseUtcToLocalDateIn(Get(parsed).zone, Get(parsed).first),
                parseUtcToLocalDateIn(Get(parsed).zone, Get(parsed).second)>>)])
  /\ UNCHANGED <<ui, env, retry, grouped, dates>>

KeySlots ==
  /\ Get(parsed).dates # None
  /\ Get(parsed).keys = None
  /\ parsed' = Some([Get(parsed) EXCEPT !.keys =
         Some(<<formatDateKey(Get(Get(parsed).dates)[1]),
                formatDateKey(Get(Get(parsed).dates)[2])>>)])
  /\ UNCHANGED <<ui, env, retry, grouped, dates>>

NextParse == ParseSlots \/ KeySlots

SpecParse == InitParse /\ [][NextParse]_vars

(***************************************************************************)
(* Properties.  last describes the step that led to the current state, so  *)
(* that last' in an action formula names the handler the step has run.     *)
(***************************************************************************)
RequestKinds == {"status", "logout", "schedule", "create", "command"}

\* l is the continuation of a request of one of these kinds that failed.
FailedCall(l, kinds) == l.req # None /\ l.op \in kinds /\ l.arg \in Failures

\* The requests the step has issued: what inflight' holds beyond the requests of
\* inflight, less the one the step has answered.
Issued ==
  SubSeq(inflight', Len(inflight) - (IF last'.req # None THEN 1 ELSE 0) + 1, Len(inflight'))

NumSchedule(reqs) == Len(SelectSeq(reqs, LAMBDA r : r.kind = "schedule"))

\* C1, as the code has it: a failed GET /schedule or POST
\* /schedule/process-command leaves error non-null, and the error banner shown
\* unless the skeleton hides it; a failed GET /auth/status, GET /auth/logout or
\* POST /schedule/create sets no error: error keeps its value, or becomes null
\* because a fetch was chained to the response.
C1_FailuresThatSetError ==
  [][ /\ FailedCall(last', {"schedule", "command"}) =>
           error' # None /\ (~loading' => View' = "error")
      /\ FailedCall(last', {"status", "logout", "create"}) => error' \in {error, None}
    ]_vars

\* C1, as stated: after any failed backend call error is non-null.
C1_EveryFailureSetsError == FailedCall(last, RequestKinds) => error # None

\* A POST /schedule/create has failed, and the dialog is still open over a
\* component without error.
C1_Witness ==
  /\ FailedCall(last, {"create"})
  /\ error = None
  /\ showScheduleDialog
  /\ View = "slots"

\* C2: a failed GET /schedule (non-OK status, network error, unparsable body)
\* sets error to the load-failure message and dataLoading to false, and leaves
\* data, selectedDate, selectedSlot, isAuthenticated and usingRealData as they
\* were.
C2_ScheduleFailureKeepsData ==
  [][ FailedCall(last', {"schedule"}) =>
        /\ error' = Some(LoadFailed)
        /\ dataLoading' = FALSE
        /\ UNCHANGED <<data, selectedDate, selectedSlot, isAuthenticated, usingRealData>>
    ]_vars

\* A dated GET /schedule has failed for an authenticated user who had data and a
\* selected day, and still has them.
C2_Witness ==
  /\ FailedCall(last, {"schedule"})
  /\ error = Some(LoadFailed)
  /\ ~dataLoading
  /\ data # None /\ selectedDate # None /\ isAuthenticated /\ usingRealData

\* C3, with the hypothesis the code needs: Try Again, offered by the error
\* banner, at once sets error to null and dataLoading to true and issues an
\* undated GET /schedule; and if the requests then in flight and those issued
\* afterwards all receive OK responses, a state with error = null, dataLoading =
\* false and data a received schedule follows, at the latest when the last
\* response has arrived.
C3_TryAgainRecovers ==
  /\ [][ last'.op = "tryAgain" =>
           /\ View = "error"
           /\ error' = None
           /\ dataLoading' = TRUE
           /\ Issued = <<FetchReq("retry", isAuthenticated, None)>>
       ]_vars
  /\ [](retry.st = "pending" /\ inflight = <<>> => retry.late)
  /\ (retry.st = "pending") ~> (retry.st # "pending" \/ retry.late)

\* C3, as stated: OK responses to the requests in flight at the press are
\* enough, so that no press is still unrecovered, with none of these requests
\* failed, once nothing is in flight.
C3_InFlightAtThePressSuffice == inflight = <<>> => retry.st # "pending"

\* A press of Try Again has been followed by recovery, and nothing is in flight.
C3_Witness ==
  /\ retry.st = "done"
  /\ error = None /\ ~dataLoading /\ data # None
  /\ inflight = <<>>

\* C4: no GET /schedule is cancelled (a request leaves the requests in flight
\* only by being answered), and every OK response is applied when it arrives:
\* data is the body of the response that arrived last, whenever its request was
\* issued.
C4_LastArrivalWins ==
  [][ /\ NumSchedule(inflight') >=
           NumSchedule(inflight) - (IF last'.op = "schedule" THEN 1 ELSE 0)
      /\ last'.op = "schedule" /\ last'.arg = "ok" => data' = last'.val
    ]_vars

\* The last schedule response to arrive belongs to a request that was issued
\* before one answered earlier, and data is its body.
C4_Witness ==
  /\ last.op = "schedule" /\ last.arg = "ok"
  /\ Get(last.req).overtaken
  /\ data = last.val
  /\ NumSchedule(inflight) = 0

\* C5: a GET /schedule carries selected_date exactly when handleDateSelect
\* issued it, for the day picked; mount issues two undated requests, Try Again,
\* a change of isAuthenticated, a successful logout, a successful creation and
\* a completed check after google-auth-success issue undated ones, and a button
\* of the Available Dates list issues none.
C5_DatedOnlyFromCalendar ==
  [][ /\ \A k \in 1..Len(Issued) :
           Issued[k].kind = "schedule" =>
             (Issued[k].date # None <=> last'.op = "handleDateSelect")
      /\ last'.op = "handleDateSelect" /\ last'.arg = "date" =>
           /\ Len(Issued) = 1
           /\ Issued[1].kind = "schedule"
           /\ Issued[1].date # None /\ Issued[1].date = selectedDate'
      /\ last'.op = "dateButton" => Issued = <<>> /\ selectedDate' # None
      /\ last'.op = "mount" => NumSchedule(Issued) = 2
      /\ last'.op = "tryAgain" => NumSchedule(Issued) = 1
      /\ isAuthenticated' # isAuthenticated => NumSchedule(Issued) >= 1
      /\ last'.op \in {"logout", "create"} /\ last'.arg = "ok" => NumSchedule(Issued) >= 1
      /\ last'.op = "status" /\ Get(last'.req).trigger = "message" =>
           NumSchedule(Issued) >= 1
    ]_vars

\* A day is selected, a dated request is in flight, and an undated one was
\* issued after it.
C5_Witness ==
  /\ selectedDate # None
  /\ \E j, k \in 1..Len(inflight) :
       /\ j < k
       /\ inflight[j].kind = "schedule" /\ inflight[j].date = selectedDate
       /\ inflight[k].kind = "schedule" /\ inflight[k].date = None

\* C6: a POST /schedule/create is issued only by scheduleEvent with a selected
\* slot, with the body {start_time: selectedSlot, summary: eventName,
\* description: eventDescription} of the values at the click; without a selected
\* slot scheduleEvent issues nothing and changes nothing.
C6_CreateOnlyWithSlot ==
  [][ /\ \A k \in 1..Len(Issued) :
           Issued[k].kind = "create" => last'.op = "scheduleEvent" /\ selectedSlot # None
      /\ last'.op = "scheduleEvent" =>
           /\ UNCHANGED ui
           /\ IF selectedSlot # None
              THEN /\ Len(Issued) = 1
                   /\ Issued[1].kind = "create"
                   /\ Issued[1].body =
                        Some([start_time |-> Get(selectedSlot), summary |-> eventName,
                              description |-> eventDescription])
              ELSE Issued = <<>> /\ UNCHANGED <<inflight, pollers, timers>>
    ]_vars

\* Schedule Event has just been pressed with a slot, a name and a description,
\* and the request that carries them is in flight.
C6_Witness ==
  /\ last.op = "scheduleEvent"
  /\ selectedSlot = Some(SlotB1) /\ eventName = "BBQ" /\ eventDescription = "party"
  /\ inflight # <<>>
  /\ inflight[Len(inflight)].kind = "create"
  /\ inflight[Len(inflight)].body =
       Some([start_time |-> SlotB1, summary |-> "BBQ", description |-> "party"])

\* C7: a POST /schedule/process-command is issued only by
\* processNaturalLanguage, for an authenticated user and a command that is not
\* blank once trimmed, and carries the command as typed; for a blank command or
\* without authentication processNaturalLanguage issues nothing and changes
\* nothing.
C7_CommandOnlyWhenNonBlank ==
  [][ /\ \A k \in 1..Len(Issued) :
           Issued[k].kind = "command" =>
             /\ last'.op = "processNaturalLanguage"
             /\ Trim(nlCommand) # <<>> /\ isAuthenticated
      /\ last'.op = "processNaturalLanguage" =>
           IF Trim(nlCommand) # <<>> /\ isAuthenticated
           THEN /\ Len(Issued) = 1
                /\ Issued[1].kind = "command"
                /\ Issued[1].body = Some([command |-> nlCommand])
           ELSE Issued = <<>> /\ UNCHANGED <<ui, inflight, pollers, timers>>
    ]_vars

\* Enter has just been pressed on a command of blanks: nothing is being
\* processed and no command request is in flight.
C7_Witness ==
  /\ last.op = "processNaturalLanguage"
  /\ nlCommand # <<>> /\ Trim(nlCommand) = <<>>
  /\ ~nlProcessing /\ nlResult = None
  /\ \A k \in 1..Len(inflight) : inflight[k].kind # "command"

\* C8: a google-auth-success message issues a GET /auth/status and nothing else,
\* and leaves the state alone; the schedule fetch chained to that check is
\* issued, and authLoading set to false, in the step that completes the check,
\* whatever its outcome, and in no other step; any other message issues nothing
\* and changes nothing.
C8_MessageThenCheckThenFetch ==
  [][ /\ last'.op = "message" /\ last'.arg = AuthSuccess =>
           /\ Len(Issued) = 1
           /\ Issued[1].kind = "status" /\ Issued[1].trigger = "message"
           /\ UNCHANGED ui
      /\ last'.op = "message" /\ last'.arg # AuthSuccess =>
           UNCHANGED <<ui, inflight, pollers, timers>>
      /\ last'.op = "status" /\ Get(last'.req).trigger = "message" =>
           /\ \E k \in 1..Len(Issued) :
                Issued[k].kind = "schedule" /\ Issued[k].trigger = "message"
           /\ authLoading' = FALSE
      /\ \A k \in 1..Len(Issued) :
           Issued[k].kind = "schedule" /\ Issued[k].trigger = "message" =>
             last'.op = "status" /\ Get(last'.req).trigger = "message"
    ]_vars

\* The check started by a google-auth-success message has failed, and the fetch
\* chained to it is in flight.
C8_Witness ==
  /\ FailedCall(last, {"status"})
  /\ Get(last.req).trigger = "message"
  /\ ~authLoading
  /\ inflight # <<>>
  /\ inflight[Len(inflight)].kind = "schedule"
  /\ inflight[Len(inflight)].trigger = "message"

\* C9: an OK response to GET /auth/logout makes isAuthenticated false and
\* selectedSlot, selectedDate and data null and issues a schedule fetch; a
\* non-OK response or a network error leaves the four as they were and issues
\* nothing; either way loading and authLoading are false afterwards.
C9_LogoutOutcomes ==
  [][ last'.op = "logout" =>
        /\ loading' = FALSE /\ authLoading' = FALSE
        /\ IF last'.arg = "ok"
           THEN /\ isAuthenticated' = FALSE
                /\ selectedSlot' = None /\ selectedDate' = None /\ data' = None
                /\ \E k \in 1..Len(Issued) :
                     Issued[k].kind = "schedule" /\ Issued[k].trigger = "logout"
           ELSE /\ UNCHANGED <<isAuthenticated, selectedSlot, selectedDate, data>>
                /\ Issued = <<>>
    ]_vars

\* A logout has failed: the user is still authenticated, with data and a
\* selected day, and the skeleton is gone.
C9_Witness ==
  /\ FailedCall(last, {"logout"})
  /\ isAuthenticated /\ data # None /\ selectedDate # None
  /\ ~loading /\ ~authLoading

\* The day a timestamp is written with, as formatDateKey spells days.
WrittenDay(slot) ==
  SubSeq(slot, 6, 7) \o <<"/">> \o SubSeq(slot, 9, 10) \o <<"/">> \o SubSeq(slot, 1, 4)

\* C10: groupSlotsByDate has one group per day that data.available_slots
\* mentions and none else; the group of a day holds the slots of that day, all
\* of them, in the order of the list, so no group is empty and no slot is in two
\* groups; getDatesWithSlots returns the midnight of each of these days once;
\* both are empty when data or available_slots is missing.
C10_GroupsPartitionByDay ==
  LET slots == IF NoSlots(data) THEN <<>> ELSE Get(Get(data).available_slots)
      days == {WrittenDay(slots[i]) : i \in 1..Len(slots)}
  IN
  /\ grouped # None =>
       /\ DOMAIN Get(grouped) = days
       /\ \A day \in days :
            /\ Get(grouped)[day] # <<>>
            /\ Get(grouped)[day] = SelectSeq(slots, LAMBDA slot : WrittenDay(slot) = day)
  /\ dates # None =>
       /\ Len(Get(dates)) = Cardinality(days)
       /\ {formatDateKey(Get(dates)[i]) : i \in 1..Len(Get(dates))} = days
       /\ \A i \in 1..Len(Get(dates)) :
            Get(dates)[i].hours = 0 /\ Get(dates)[i].minutes = 0

\* Both functions have been applied to three slots, the first and the last of
\* one day and the second of another.
C10_Witness ==
  /\ data = Some([available_slots |-> Some(<<SlotA1, SlotB1, SlotA2>>), note |-> None])
  /\ grouped # None /\ dates # None
  /\ Get(grouped)[WrittenDay(SlotA1)] = <<SlotA1, SlotA2>>
  /\ Get(grouped)[WrittenDay(SlotB1)] = <<SlotB1>>
  /\ Len(Get(dates)) = 2

\* C11: isAuthenticated changes only in the step that applies an OK
\* /auth/status response, to its authenticated field, or an OK /auth/logout
\* response, to false; these two always set it so, and no other step (a message,
\* a closed popup, a failed check or logout, any other response) touches it.
C11_AuthChangesOnlyOnOkResponses ==
  [][ /\ last'.op = "status" /\ last'.arg = "ok" => isAuthenticated' = Get(last'.val)
      /\ last'.op = "logout" /\ last'.arg = "ok" => isAuthenticated' = FALSE
      /\ ~(last'.op \in {"status", "logout"} /\ last'.arg = "ok") => UNCHANGED isAuthenticated
    ]_vars

\* An OK status check has just made the user authenticated: the
\* isAuthenticated effect has issued its fetch for the new value.
C11_Witness ==
  /\ last.op = "status" /\ last.arg = "ok" /\ last.val = Some(TRUE)
  /\ isAuthenticated
  /\ inflight # <<>>
  /\ inflight[Len(inflight)].trigger = "authEffect"
  /\ inflight[Len(inflight)].auth = TRUE

\* C12: an OK response to POST /schedule/create closes the dialog, sets
\* selectedSlot to null and eventName and eventDescription to "", and issues one
\* undated GET /schedule, whose start sets error to null and dataLoading to
\* true; selectedDate, isAuthenticated and data are as before.
C12_CreateOkResets ==
  [][ last'.op = "create" /\ last'.arg = "ok" =>
        /\ showScheduleDialog' = FALSE
        /\ selectedSlot' = None
        /\ eventName' = "" /\ eventDescription' = ""
        /\ Len(Issued) = 1
        /\ Issued[1].kind = "schedule" /\ Issued[1].date = None
        /\ error' = None /\ dataLoading' = TRUE
        /\ UNCHANGED <<selectedDate, isAuthenticated, data>>
    ]_vars

\* An event has just been created for an authenticated user with a selected
\* day: the dialog is closed, the slot and the texts are gone, the fetch is in
\* flight.
C12_Witness ==
  /\ last.op = "create" /\ last.arg = "ok"
  /\ Get(last.req).body # None
  /\ Get(Get(last.req).body).summary = "BBQ"
  /\ ~showScheduleDialog /\ selectedSlot = None /\ eventName = ""
  /\ selectedDate # None /\ isAuthenticated
  /\ inflight # <<>>
  /\ inflight[Len(inflight)].trigger = "create"

\* C13: a failed POST /schedule/create (non-OK status, network error,
\* unparsable body) changes no state, so the dialog is as it was, open unless
\* the user closed it meanwhile, with the same slot, day, name and description,
\* data and error, and issues no request.
C13_CreateFailureChangesNothing ==
  [][ FailedCall(last', {"create"}) =>
        /\ UNCHANGED <<showScheduleDialog, selectedSlot, selectedDate, eventName,
                       eventDescription, data, error>>
        /\ Issued = <<>>
    ]_vars

\* A creation has failed and the dialog is still open on the slot, the name and
\* the description that were sent.
C13_Witness ==
  /\ FailedCall(last, {"create"})
  /\ showScheduleDialog
  /\ selectedSlot = Some(Get(Get(last.req).body).start_time)
  /\ eventName = Get(Get(last.req).body).summary /\ eventName # ""
  /\ eventDescription = Get(Get(last.req).body).description

NumKind(reqs, kind) == Len(SelectSeq(reqs, LAMBDA r : r.kind = kind))

\* C14, as the spec has it: a press of Schedule Event that follows at once a
\* press that sent the create request of the selected slot, in the same opening
\* of the dialog and before any response, sends no second create request.
C14_SecondPressSendsNothing ==
  [][ /\ last.op = "scheduleEvent" /\ Truthy(selectedSlot)
      /\ inflight # <<>> /\ inflight[Len(inflight)].kind = "create"
      /\ last'.op = "scheduleEvent"
      => Issued = <<>>
    ]_vars

\* C15, as the spec has it: at most one POST /schedule/process-command is in
\* flight, and nlProcessing is true while one is.
C15_OneCommandInFlight ==
  /\ NumKind(inflight, "command") <= 1
  /\ NumKind(inflight, "command") >= 1 => nlProcessing

\* C16: an OK process-command response becomes nlResult.  With a found_slot,
\* selectedSlot becomes it, selectedDate the midnight of the day it is written
\* with, which is the one key groupSlotsByDate files it under, eventName and
\* eventDescription the returned texts or "", and the timeout that opens the
\* dialog is set exactly when event_name is non-empty; the dialog is not opened
\* in that step.  Without a found_slot, the slot, the day, the two texts and
\* the dialog are as before and no timeout is set.  The timeout, when it
\* fires, opens the dialog and does nothing else.
C16_CommandOkPreselects ==
  [][ /\ last'.op = "command" /\ last'.arg = "ok" =>
           LET result == Get(last'.val)
               slot == Get(result.found_slot)
               named == result.event_name # None /\ Get(result.event_name) # ""
               described == result.event_description # None /\ Get(result.event_description) # ""
           IN
           /\ nlResult' = Some(result)
           /\ IF result.found_slot # None /\ slot # <<>>
              THEN /\ selectedSlot' = Some(slot)
                   /\ selectedDate' # None
                   /\ Get(selectedDate').hours = 0 /\ Get(selectedDate').minutes = 0
                   /\ formatDateKey(Get(selectedDate')) = WrittenDay(slot)
                   /\ DOMAIN GroupFrom(<<slot>>, 1, <<>>) = {formatDateKey(Get(selectedDate'))}
                   /\ eventName' = IF named THEN Get(result.event_name) ELSE ""
                   /\ eventDescription' = IF described THEN Get(result.event_description) ELSE ""
                   /\ timers' = IF named THEN timers + 1 ELSE timers
                   /\ UNCHANGED showScheduleDialog
              ELSE UNCHANGED <<selectedSlot, selectedDate, eventName, eventDescription,
                               showScheduleDialog, timers>>
      /\ timers' > timers => last'.op = "command" /\ last'.arg = "ok"
      /\ last'.op = "dialogTimer" =>
           /\ timers' = timers - 1
           /\ showScheduleDialog'
           /\ UNCHANGED <<selectedSlot, selectedDate, eventName, eventDescription, nlResult>>
    ]_vars

\* The timeout of a complete answer has fired: the dialog is open on the found
\* slot, its day selected, with the returned name and description.
C16_Witness ==
  /\ last.op = "dialogTimer"
  /\ nlResult = Some(NlFull)
  /\ selectedSlot = NlFull.found_slot
  /\ selectedDate = Some(NewDate(2025, 5, 3, 0, 0))
  /\ eventName = "BBQ" /\ eventDescription = "party"
  /\ showScheduleDialog

\* C17: a failed process-command request sets error to the "Failed to process
\* your command" message and leaves nlResult, selectedSlot, selectedDate,
\* eventName and eventDescription alone; nlProcessing is false after every
\* completion of a process-command request, failed or not.
C17_CommandFailureSetsError ==
  [][ /\ FailedCall(last', {"command"}) =>
           /\ error' = Some(CommandFailed)
           /\ UNCHANGED <<nlResult, selectedSlot, selectedDate, eventName, eventDescription>>
      /\ last'.op = "command" => nlProcessing' = FALSE
    ]_vars

\* A command has failed after an earlier one had found a slot: the earlier
\* answer and its selection are still there, under the error.
C17_Witness ==
  /\ FailedCall(last, {"command"})
  /\ error = Some(CommandFailed)
  /\ ~nlProcessing
  /\ nlResult # None /\ selectedSlot # None /\ selectedDate # None

\* C18, as the spec has it: the scheduling dialog is open only for an
\* authenticated user.
C18_DialogOnlyWhenAuthenticated == showScheduleDialog => isAuthenticated

\* C19, as the spec has it: a selected slot lies on the selected date.
C19_SlotOnSelectedDate ==
  selectedDate # None /\ selectedSlot # None =>
    formatDateKey(parseUtcToLocalDate(Get(selectedSlot))) = formatDateKey(Get(selectedDate))

\* C20, as the spec has it: with no request in flight, usingRealData is true
\* exactly when the user is authenticated and the note of the data held does
\* not contain "mock"; in particular it is false for an unauthenticated user.
C20_RealDataOnlyWhenAuthenticated ==
  inflight = <<>> =>
    /\ usingRealData => isAuthenticated
    /\ data # None =>
         usingRealData =
           (isAuthenticated /\ ~(Get(data).note # None /\ Includes(Get(Get(data).note), MockWord)))

\* C21, as the spec has it: when the response of a schedule fetch started by
\* handleDateSelect or by a google-auth-success message is applied for an
\* authenticated user and its note does not contain "mock", usingRealData
\* becomes true.
C21_FetchUsesCurrentAuth ==
  [][ /\ last'.op = "schedule" /\ last'.arg = "ok"
      /\ Get(last'.req).trigger \in {"calendar", "message"}
      /\ isAuthenticated
      /\ ~(Get(last'.val).note # None /\ Includes(Get(Get(last'.val).note), MockWord))
      => usingRealData'
    ]_vars

\* C22, as the spec has it: while a GET /schedule request is in flight,
\* dataLoading or loading is true and hasAvailableSlots is false for every day
\* of the calendar.
C22_CalendarDisabledWhileFetching ==
  NumSchedule(inflight) >= 1 =>
    /\ dataLoading \/ loading
    /\ \A day \in CalendarDays, isInFutureRange \in BOOLEAN :
         ~hasAvailableSlots(day, isInFutureRange)

\* C23: once mounted, dataLoading is false whenever no GET /schedule request is
\* in flight; and, every request being answered in the end, a state with
\* dataLoading true is followed by one with dataLoading false.
C23_DataLoadingEnds ==
  /\ [](mounted /\ NumSchedule(inflight) = 0 => ~dataLoading)
  /\ (mounted /\ dataLoading) ~> ~dataLoading

\* The last schedule request to be pending has failed: nothing is in flight and
\* dataLoading is false, under the error the failure set.
C23_Witness ==
  /\ FailedCall(last, {"schedule"})
  /\ Get(last.req).trigger = "retry"
  /\ inflight = <<>>
  /\ ~dataLoading
  /\ error = Some(LoadFailed)

\* C24, as the spec has it: loading is true for as long as a refresh fetch, the
\* one the isAuthenticated effect issues at mount and at each change of
\* isAuthenticated, is in flight.
C24_LoadingCoversRefresh ==
  (\E i \in 1..Len(inflight) :
     inflight[i].kind = "schedule" /\ inflight[i].trigger = "authEffect") => loading

\* The popup's status check has just made the user authenticated: the fetch of
\* the isAuthenticated effect is the request issued last.
PopupLogin ==
  /\ last.op = "status" /\ last.arg = "ok" /\ last.val = Some(TRUE)
  /\ Get(last.req).trigger = "popup"
  /\ isAuthenticated
  /\ inflight # <<>>
  /\ inflight[Len(inflight)] = FetchReq("authEffect", TRUE, None)

\* The response that sets the data held once nothing is in flight comes from a
\* request issued by a render that had the user unauthenticated.
SettledOnUnauthenticatedFetch ==
  /\ inflight = <<>>
  /\ isAuthenticated
  /\ last.op = "schedule" /\ last.arg = "ok"
  /\ ~Get(last.req).auth
  /\ Get(last.req).trigger \in {"mount", "authEffect", "retry"}

\* C25, as the code has it: when the status check of a closed popup says
\* authenticated to a user who is not, isAuthenticated becomes true and exactly
\* one GET /schedule is issued in that step, by the isAuthenticated effect from
\* a render with isAuthenticated true; the poller's own fetchData() is never
\* called.  The data held when nothing is in flight comes from a request of an
\* unauthenticated render only when that response arrived after the response
\* to a request issued later.
C25_PopupLoginRefetches ==
  /\ [][ /\ last'.op = "status" /\ last'.arg = "ok" /\ last'.val = Some(TRUE)
         /\ Get(last'.req).trigger = "popup"
         /\ ~isAuthenticated
         => /\ isAuthenticated'
            /\ Issued = <<FetchReq("authEffect", TRUE, None)>>
            /\ dataLoading' /\ error' = None
       ]_vars
  /\ [](\A i \in 1..Len(inflight) :
          ~(inflight[i].kind = "schedule" /\ inflight[i].trigger = "popup"))
  /\ [](SettledOnUnauthenticatedFetch => Get(last.req).overtaken)

\* The popup's status check has just logged the user in while a fetch issued
\* before is still to be answered.
C25_Witness == PopupLogin /\ NumSchedule(inflight) >= 2

\* C25, as the spec has it: once the popup's status check has made the user
\* authenticated, the data held when all requests have settled was fetched
\* after isAuthenticated became true.
C25_DataOfAuthenticatedSession == [](PopupLogin => [](~SettledOnUnauthenticatedFetch))

\* What the slot content offers: the calendar, the Available Dates buttons, the
\* time slots and Schedule Meeting.
SlotContentOps == {"handleDateSelect", "dateButton", "handleSlotSelect", "openScheduleDialog"}

\* C26: the view is the skeleton while loading, else the error banner while
\* error is set, else the login prompt while unauthenticated, else the slot
\* content if data is held, else "No data available".  So the slot content is
\* shown, and its handlers run, only with loading false, error null,
\* isAuthenticated true and data non-null, and Try Again only from the error
\* banner.
C26_ViewPrecedence ==
  /\ [](/\ loading => View = "skeleton"
        /\ ~loading /\ error # None => View = "error"
        /\ ~loading /\ error = None /\ ~isAuthenticated => View = "login"
        /\ ~loading /\ error = None /\ isAuthenticated /\ data # None => View = "slots"
        /\ ~loading /\ error = None /\ isAuthenticated /\ data = None => View = "nodata"
        /\ View = "slots" => ~loading /\ error = None /\ isAuthenticated /\ data # None)
  /\ [][ /\ last'.op \in SlotContentOps =>
              ~loading /\ error = None /\ isAuthenticated /\ data # None
         /\ last'.op = "tryAgain" => ~loading /\ error # None
       ]_vars

\* An unauthenticated user sees the login prompt although data holds a
\* schedule response with slots.
C26_Witness ==
  /\ View = "login"
  /\ ~isAuthenticated
  /\ data # None /\ getDatesWithSlots(data) # <<>>
  /\ inflight = <<>>

\* The fields a timestamp YYYY-MM-DDTHH:MM... is written with, read off by
\* position.
Written(iso) ==
  [year |-> DigitsValue(SubSeq(iso, 1, 4), 4, 0),
   month |-> DigitsValue(SubSeq(iso, 6, 7), 2, 0) - 1,
   date |-> DigitsValue(SubSeq(iso, 9, 10), 2, 0),
   hours |-> DigitsValue(SubSeq(iso, 12, 13), 2, 0),
   minutes |-> DigitsValue(SubSeq(iso, 15, 16), 2, 0)]

====
